---- MODULE Spec2Model ----
(***************************************************************************)
(* Model of the preflight check engine of                                  *)
(* pkg/util/kubernetes/kubeadm/app/preflight/checks.go: the Checker        *)
(* interface, ServiceCheck, FirewalldCheck, ImagePullCheck, RunChecks,     *)
(* setHasItemOrAll and the aggregate Error value.                          *)
(*                                                                         *)
(* A Go string that takes part in a case conversion (a check name, an      *)
(* ignore token) is a sequence of one-character strings.  A diagnostic     *)
(* (a Go error value) is a record [text, arg] standing for its message.    *)
(* A formatted line is the record of the three parts fmt.Sprintf puts      *)
(* together: the level, the check name and the message.                    *)
(***************************************************************************)
EXTENDS Integers, Sequences, FiniteSets, TLC

\* ------------------------------------------------------------------ bounds
\* Longest sequence of checks handed to RunChecks.
MaxChecks == 2
\* Longest image list of an ImagePullCheck in the ImagePullCheck specification.
MaxImages == 2

\* ------------------------------------------------------------ Go strings
UpperChars == <<"A","B","C","D","E","F","G","H","I","J","K","L","M",
                "N","O","P","Q","R","S","T","U","V","W","X","Y","Z">>
LowerChars == <<"a","b","c","d","e","f","g","h","i","j","k","l","m",
                "n","o","p","q","r","s","t","u","v","w","x","y","z">>

IsUpperChar(c) == \E k \in 1..26 : UpperChars[k] = c
IsLowerChar(c) == \E k \in 1..26 : LowerChars[k] = c
Digits == {"0","1","2","3","4","5","6","7","8","9"}
\* ASCII letters, digits and the underscore do not separate words
IsSeparator(c) == ~(IsUpperChar(c) \/ IsLowerChar(c) \/ c \in Digits \/ c = "_")

ToLowerChar(c) ==
    IF IsUpperChar(c) THEN LowerChars[CHOOSE k \in 1..26 : UpperChars[k] = c] ELSE c
ToUpperChar(c) ==
    IF IsLowerChar(c) THEN UpperChars[CHOOSE k \in 1..26 : LowerChars[k] = c] ELSE c

\* strings.ToLower on ASCII text
ToLower(s) == [k \in 1..Len(s) |-> ToLowerChar(s[k])]

\* strings.Title: the first letter of every word is upper-cased
Title(s) ==
    [k \in 1..Len(s) |->
        IF k = 1 \/ IsSeparator(s[k-1]) THEN ToUpperChar(s[k]) ELSE s[k]]

\* ------------------------------------------------------------- diagnostics
Diag(text, arg) == [text |-> text, arg |-> arg]

\* ---------------------------------------------------------- setHasItemOrAll
AllToken == <<"a","l","l">>

setHasItemOrAll(s, item) ==
    IF AllToken \in s \/ ToLower(item) \in s THEN TRUE ELSE FALSE

\* ------------------------------------------------------------ the checks
\* A check instance: the fields of the Go struct behind the Checker interface.
\* kind "Checker" is any other implementation of the interface, named Label.
NoStr == << >>

CheckRec(kind, label, service, active, images, policy) ==
    [kind |-> kind, Label |-> label, Service |-> service, CheckIfActive |-> active,
     imageList |-> images, imagePullPolicy |-> policy]

Result(w, e) == [warnings |-> w, errorList |-> e]

\* Results an arbitrary Checker implementation may return from Check():
\* nothing, warnings only, errors only, both.
Checker_Results ==
    { Result(<< >>, << >>),
      Result(<<Diag("w1", "")>>, << >>),
      Result(<< >>, <<Diag("e1", "")>>),
      Result(<<Diag("w1", ""), Diag("w2", "")>>, <<Diag("e1", ""), Diag("e2", "")>>) }

\* The init system as one Check() call sees it: whether GetInitSystem
\* succeeds, and the answers of ServiceExists / ServiceIsEnabled / ServiceIsActive.
InitSystemEnvs ==
    [detected : BOOLEAN, exists : BOOLEAN, enabled : BOOLEAN, active : BOOLEAN]

ServicePrefix == <<"S","e","r","v","i","c","e","-">>

ServiceCheck_Name(sc) ==
    IF sc.Label # NoStr THEN sc.Label ELSE ServicePrefix \o Title(sc.Service)

\* Mutation: the failed detection of the init system returned as an error.
ServiceCheck_Check_InitFailureAsError(sc, env) ==
    IF ~env.detected THEN Result(<< >>, <<Diag("no supported init system detected", "")>>)
    ELSE IF ~env.exists THEN Result(<<Diag("service does not exist", "")>>, << >>)
    ELSE Result(
        IF ~env.enabled THEN <<Diag("service is not enabled", "")>> ELSE << >>,
        IF sc.CheckIfActive /\ ~env.active
            THEN <<Diag("service is not active", "")>> ELSE << >>)

ServiceCheck_Check(sc, env) ==
    IF ~env.detected THEN Result(<<Diag("no supported init system detected", "")>>, << >>)
    ELSE IF ~env.exists THEN Result(<<Diag("service does not exist", "")>>, << >>)
    ELSE Result(
        IF ~env.enabled THEN <<Diag("service is not enabled", "")>> ELSE << >>,
        IF sc.CheckIfActive /\ ~env.active
            THEN <<Diag("service is not active", "")>> ELSE << >>)

FirewalldCheck_Name == <<"F","i","r","e","w","a","l","l","d">>

FirewalldCheck_Check(fc, env) ==
    IF ~env.detected THEN Result(<<Diag("no supported init system detected", "")>>, << >>)
    ELSE IF ~env.exists THEN Result(<< >>, << >>)
    ELSE IF env.active THEN Result(<<Diag("firewalld is active", "")>>, << >>)
    ELSE Result(<< >>, << >>)

\* ---------------------------------------------------------- ImagePullCheck
PullNever == "Never"
PullIfNotPresent == "IfNotPresent"
PullAlways == "Always"

\* What the container runtime answers for the k-th image of the list:
\* ImageExists returns (exists, existsErr), PullImage returns pullErr.
ImageAnswers == [exists : BOOLEAN, existsErr : BOOLEAN, pullErr : BOOLEAN]

Call(op, image) == [op |-> op, image |-> image]

ImagePullCheck_Name == <<"I","m","a","g","e","P","u","l","l">>

\* The loop of ImagePullCheck.Check from the k-th image on; errs and calls are
\* the errorList and the runtime calls made so far.
RECURSIVE ImagePullLoop(_, _, _, _, _, _)
ImagePullLoop(imageList, policy, rt, k, errs, calls) ==
    IF k > Len(imageList) THEN [warnings |-> << >>, errorList |-> errs, calls |-> calls]
    ELSE LET image == imageList[k]
             pull == Call("PullImage", image)
             pullErrs == IF rt[k].pullErr
                            THEN <<Diag("failed to pull image", image)>> ELSE << >>
         IN CASE policy = PullNever ->
                   ImagePullLoop(imageList, policy, rt, k + 1, errs, calls)
              [] policy = PullIfNotPresent ->
                   LET q == Append(calls, Call("ImageExists", image))
                   IN IF rt[k].exists /\ ~rt[k].existsErr
                        THEN ImagePullLoop(imageList, policy, rt, k + 1, errs, q)
                        ELSE ImagePullLoop(imageList, policy, rt, k + 1,
                                 errs \o (IF rt[k].existsErr
                                            THEN <<Diag("failed to check if image exists", image)>>
                                            ELSE << >>) \o pullErrs,
                                 Append(q, pull))
              [] policy = PullAlways ->
                   ImagePullLoop(imageList, policy, rt, k + 1, errs \o pullErrs,
                                 Append(calls, pull))
              [] OTHER ->
                   [warnings |-> << >>,
                    errorList |-> Append(errs, Diag("unsupported pull policy", policy)),
                    calls |-> calls]

\* Mutation: IfNotPresent skips an image the runtime reports present even
\* when the existence query failed.
ImagePullCheck_Check_TrustsExists(ipc, rt) ==
    ImagePullLoop(ipc.imageList, ipc.imagePullPolicy,
                  [k \in DOMAIN rt |->
                      IF rt[k].exists THEN [rt[k] EXCEPT !.existsErr = FALSE] ELSE rt[k]],
                  1, << >>, << >>)

ImagePullCheck_Check(ipc, rt) ==
    ImagePullLoop(ipc.imageList, ipc.imagePullPolicy, rt, 1, << >>, << >>)

\* --------------------------------------------------------- Checker dispatch
Name(c) ==
    CASE c.kind = "ServiceCheck" -> ServiceCheck_Name(c)
      [] c.kind = "FirewalldCheck" -> FirewalldCheck_Name
      [] c.kind = "ImagePullCheck" -> ImagePullCheck_Name
      [] OTHER -> c.Label

Outcome(r, initFailed) ==
    [warnings |-> r.warnings, errorList |-> r.errorList, initFailed |-> initFailed]

\* Everything c.Check() may return, over the environments it may run in.
Check(c) ==
    CASE c.kind = "ServiceCheck" ->
           { Outcome(ServiceCheck_Check(c, env), ~env.detected) : env \in InitSystemEnvs }
      [] c.kind = "FirewalldCheck" ->
           { Outcome(FirewalldCheck_Check(c, env), ~env.detected) : env \in InitSystemEnvs }
      [] c.kind = "ImagePullCheck" ->
           { Outcome(ImagePullCheck_Check(c, rt), FALSE) :
                 rt \in [1..Len(c.imageList) -> ImageAnswers] }
      [] OTHER -> { Outcome(r, FALSE) : r \in Checker_Results }

\* ------------------------------------------------- more Go string functions
DigitChars == <<"0","1","2","3","4","5","6","7","8","9">>
IsDigitChar(c) == \E k \in 1..10 : DigitChars[k] = c
DigitVal(c) == (CHOOSE k \in 1..10 : DigitChars[k] = c) - 1

\* The characters of a pre-release identifier in the order of their bytes.
AsciiChars == <<"-">> \o DigitChars \o UpperChars \o LowerChars
CharCode(c) == CHOOSE k \in 1..Len(AsciiChars) : AsciiChars[k] = c

\* a < b on Go strings: byte-wise lexicographic order
RECURSIVE StrLess(_, _)
StrLess(a, b) ==
    IF b = << >> THEN FALSE
    ELSE IF a = << >> THEN TRUE
    ELSE IF Head(a) = Head(b) THEN StrLess(Tail(a), Tail(b))
    ELSE CharCode(Head(a)) < CharCode(Head(b))

HasPrefix(s, p) == Len(p) <= Len(s) /\ SubSeq(s, 1, Len(p)) = p

\* strings.Split(s, sep) for a one-character separator
RECURSIVE Split(_, _)
Split(s, sep) ==
    IF \A k \in 1..Len(s) : s[k] # sep THEN <<s>>
    ELSE LET at == CHOOSE k \in 1..Len(s) :
                       s[k] = sep /\ \A j \in 1..(k - 1) : s[j] # sep
         IN <<SubSeq(s, 1, at - 1)>> \o Split(SubSeq(s, at + 1, Len(s)), sep)

\* strconv.ParseUint(s, 10, 0): the value, or -1 for an error
RECURSIVE ParseUint(_)
ParseUint(s) ==
    IF s = << >> \/ \E k \in 1..Len(s) : ~IsDigitChar(s[k]) THEN -1
    ELSE IF Len(s) = 1 THEN DigitVal(s[1])
    ELSE 10 * ParseUint(SubSeq(s, 1, Len(s) - 1)) + DigitVal(s[Len(s)])

\* fmt.Sprintf("%d", n) for n >= 0
RECURSIVE Dec(_)
Dec(n) == IF n < 10 THEN <<DigitChars[n + 1]>> ELSE Dec(n \div 10) \o <<DigitChars[(n % 10) + 1]>>

\* ------------------------------------------- versionutil (semantic versions)
\* A parsed version: its numeric components and its pre-release string.
Version(c, pre) == [ok |-> TRUE, components |-> c, preRelease |-> pre]
NoVersion == [ok |-> FALSE, components |-> << >>, preRelease |-> << >>]

\* Length of the longest prefix of s of the form [0-9]+(\.[0-9]+)* (0 when s
\* does not start with a digit), k being the next position to look at.
RECURSIVE NumbersEnd(_, _)
NumbersEnd(s, k) ==
    IF k <= Len(s) /\ IsDigitChar(s[k]) THEN NumbersEnd(s, k + 1)
    ELSE IF k > 1 /\ k + 1 <= Len(s) /\ s[k] = "." /\ IsDigitChar(s[k + 1])
      THEN NumbersEnd(s, k + 2)
    ELSE k - 1

\* The characters \s matches
WhiteSpace == {" ", "\t", "\n", "\f", "\r"}

RECURSIVE TrimLeft(_)
TrimLeft(s) == IF s # << >> /\ Head(s) \in WhiteSpace THEN TrimLeft(Tail(s)) ELSE s
RECURSIVE TrimRight(_)
TrimRight(s) ==
    IF s # << >> /\ s[Len(s)] \in WhiteSpace THEN TrimRight(SubSeq(s, 1, Len(s) - 1)) ELSE s

IsIdentChar(c) == \E k \in 1..Len(AsciiChars) : AsciiChars[k] = c
\* [0-9A-Za-z-]+(\.[0-9A-Za-z-]+)*
IsIdentList(s) ==
    \A id \in { Split(s, ".")[k] : k \in 1..Len(Split(s, ".")) } :
        id # << >> /\ \A k \in 1..Len(id) : IsIdentChar(id[k])

ZeroPrefixed(comp) == Len(comp) > 1 /\ comp[1] = "0"

\* versionutil.ParseSemantic.  The version is matched by
\*   ^\s*v?([0-9]+(?:\.[0-9]+)*)(.*)*$     (numbers, extra; . is not a newline)
\* and a non-empty extra by
\*   ^(?:-(IDENTS))?(?:\+(IDENTS))?\s*$    (pre-release, build metadata).
ParseSemantic(str) ==
    LET trimmed == TrimLeft(str)
        body == IF HasPrefix(trimmed, <<"v">>) THEN Tail(trimmed) ELSE trimmed
        n == NumbersEnd(body, 1)
        numbers == SubSeq(body, 1, n)
        rest == SubSeq(body, n + 1, Len(body))
        extra == TrimRight(rest)
        comps == Split(numbers, ".")
        meta == Split(extra, "+")
        pre == IF extra # << >> /\ extra[1] = "-" THEN Tail(meta[1]) ELSE << >>
        extraOk ==
            \/ extra = << >>
            \/ /\ Len(meta) <= 2
               /\ meta[1] = << >> \/ (meta[1][1] = "-" /\ IsIdentList(Tail(meta[1])))
               /\ Len(meta) = 2 => IsIdentList(meta[2])
        preParts == Split(pre, ".")
    IN IF n = 0 \/ (\E k \in 1..Len(rest) : rest[k] = "\n") THEN NoVersion
       ELSE IF Len(comps) # 3 THEN NoVersion
       ELSE IF \E k \in 1..3 : ZeroPrefixed(comps[k]) THEN NoVersion
       ELSE IF ~extraOk THEN NoVersion
       ELSE IF \E k \in 1..Len(preParts) :
                  ParseUint(preParts[k]) # -1 /\ ZeroPrefixed(preParts[k]) THEN NoVersion
       ELSE Version([k \in 1..3 |-> ParseUint(comps[k])], pre)

Major(v) == v.components[1]
Minor(v) == v.components[2]

\* Compare two pre-release strings identifier by identifier, from the k-th.
RECURSIVE ComparePreRelease(_, _, _)
ComparePreRelease(vPR, oPR, k) ==
    IF k > Len(vPR) \/ k > Len(oPR)
      THEN (IF Len(oPR) < Len(vPR) THEN 1 ELSE IF Len(oPR) > Len(vPR) THEN -1 ELSE 0)
    ELSE LET vNum == ParseUint(vPR[k])
             oNum == ParseUint(oPR[k])
         IN IF vNum # -1 /\ oNum # -1
              \* both identifiers are numbers: compared as numbers
              THEN IF oNum < vNum THEN 1
                   ELSE IF oNum > vNum THEN -1
                   ELSE ComparePreRelease(vPR, oPR, k + 1)
            \* otherwise, one of them being a number or not: compared as strings
            ELSE IF StrLess(oPR[k], vPR[k]) THEN 1
            ELSE IF StrLess(vPR[k], oPR[k]) THEN -1
            ELSE ComparePreRelease(vPR, oPR, k + 1)

\* (*Version).compareInternal for two semantic versions: -1, 0 or 1
compareInternal(v, other) ==
    IF \E k \in 1..3 : v.components[k] # other.components[k]
      THEN LET k == CHOOSE i \in 1..3 :
                        /\ v.components[i] # other.components[i]
                        /\ \A j \in 1..(i - 1) : v.components[j] = other.components[j]
           IN IF other.components[k] < v.components[k] THEN 1 ELSE -1
    ELSE IF v.preRelease = << >> /\ other.preRelease # << >> THEN 1
    ELSE IF v.preRelease # << >> /\ other.preRelease = << >> THEN -1
    ELSE IF v.preRelease = other.preRelease THEN 0
    ELSE ComparePreRelease(Split(v.preRelease, "."), Split(other.preRelease, "."), 1)

AtLeast(v, min) == compareInternal(v, min) # -1
LessThan(v, other) == compareInternal(v, other) = -1

\* --------------------------------------------------- KubernetesVersionCheck
StrV000 == <<"v","0",".","0",".","0">>
Str00 == <<"0","-","0">>
Dot == <<".">>

SkewDiag == Diag("Kubernetes version is greater than kubeadm version", "")

\* Mutation: the first unsupported version built without the pre-release 0.
KubernetesVersionCheck_Check_NoPreRelease(kubever) ==
    IF HasPrefix(kubever.KubeadmVersion, StrV000) THEN Result(<< >>, << >>)
    ELSE LET kadmVersion == ParseSemantic(kubever.KubeadmVersion)
             k8sVersion == ParseSemantic(kubever.KubernetesVersion)
         IN IF ~kadmVersion.ok
              THEN Result(<< >>, <<Diag("couldn't parse kubeadm version", "")>>)
            ELSE IF ~k8sVersion.ok
              THEN Result(<< >>, <<Diag("couldn't parse Kubernetes version", "")>>)
            ELSE LET firstUnsupportedVersion ==
                         ParseSemantic(Dec(Major(kadmVersion)) \o Dot
                                       \o Dec(Minor(kadmVersion) + 1) \o Dot \o <<"0">>)
                 IN IF AtLeast(k8sVersion, firstUnsupportedVersion)
                      THEN Result(<<SkewDiag>>, << >>)
                      ELSE Result(<< >>, << >>)

KubernetesVersionCheck_Check(kubever) ==
    IF HasPrefix(kubever.KubeadmVersion, StrV000) THEN Result(<< >>, << >>)
    ELSE LET kadmVersion == ParseSemantic(kubever.KubeadmVersion)
             k8sVersion == ParseSemantic(kubever.KubernetesVersion)
         IN IF ~kadmVersion.ok
              THEN Result(<< >>, <<Diag("couldn't parse kubeadm version", "")>>)
            ELSE IF ~k8sVersion.ok
              THEN Result(<< >>, <<Diag("couldn't parse Kubernetes version", "")>>)
            ELSE LET firstUnsupportedVersion ==
                         ParseSemantic(Dec(Major(kadmVersion)) \o Dot
                                       \o Dec(Minor(kadmVersion) + 1) \o Dot \o Str00)
                 IN IF AtLeast(k8sVersion, firstUnsupportedVersion)
                      THEN Result(<<SkewDiag>>, << >>)
                      ELSE Result(<< >>, << >>)

\* ------------------------------------------------------ KubeletVersionCheck
\* kubeadmconstants.MinimumKubeletVersion; the constants package sets it.
MinimumKubeletVersion == Version(<<1, 21, 0>>, << >>)

HigherDiag == Diag("the kubelet version is higher than the control plane version", "")

\* kubelet is what GetKubeletVersion returned: [err, version].
KubeletVersionCheck_Check(kubever, kubelet) ==
    IF kubelet.err THEN Result(<< >>, <<Diag("couldn't get kubelet version", "")>>)
    ELSE IF LessThan(kubelet.version, MinimumKubeletVersion)
      THEN Result(<< >>, <<Diag("Kubelet version is lower than kubeadm can support", "")>>)
    ELSE IF kubever.KubernetesVersion # NoStr
      THEN LET k8sVersion == ParseSemantic(kubever.KubernetesVersion)
           IN IF ~k8sVersion.ok
                THEN Result(<< >>, <<Diag("couldn't parse Kubernetes version", "")>>)
              ELSE IF \/ Major(kubelet.version) > Major(k8sVersion)
                      \/ Minor(kubelet.version) > Minor(k8sVersion)
                THEN Result(<< >>, <<HigherDiag>>)
              ELSE Result(<< >>, << >>)
    ELSE Result(<< >>, << >>)

\* ----------------------------------------------------------------- lines
\* "\t[WARNING <name>]: <w>\n" and "\t[ERROR <name>]: <e>\n"
Line(level, name, msg) == [level |-> level, name |-> name, msg |-> msg]
WarningLine(name, w) == Line("WARNING", name, w)
ErrorLine(name, e) == Line("ERROR", name, e)

HeaderLine == Line("preflight", NoStr, Diag("Some fatal errors occurred:", ""))
HintLine ==
    Line("preflight", NoStr,
         Diag("If you know what you are doing, you can make a check non-fatal with --ignore-preflight-errors=...", ""))

\* (*Error).Error(): the header line, Msg, the trailing hint
Error_Error(e) == <<HeaderLine>> \o e.Msg \o <<HintLine>>

\* ------------------------------------------------------------------ inputs
Foo == <<"F","o","o">>
FooBar == <<"F","o","o","B","a","r">>
Kubelet == <<"k","u","b","e","l","e","t">>

CheckPool ==
    { CheckRec("Checker", Foo, NoStr, FALSE, << >>, ""),
      CheckRec("Checker", FooBar, NoStr, FALSE, << >>, ""),
      CheckRec("ServiceCheck", NoStr, Kubelet, TRUE, << >>, ""),
      CheckRec("FirewalldCheck", NoStr, NoStr, FALSE, << >>, ""),
      CheckRec("ImagePullCheck", NoStr, NoStr, FALSE, <<"a">>, PullIfNotPresent) }

\* Tokens a caller may put in the ignore set.
TokenPool == { AllToken, <<"A","L","L">>, ToLower(Foo), Foo }

SeqsUpTo(S, n) == UNION { [1..k -> S] : k \in 0..n }

\* ------------------------------------------------------------------- state
VARIABLES
    checks,                 \* RunChecks argument: the ordered checks
    ignorePreflightErrors,  \* RunChecks argument: the ignore set
    pc,                     \* position in RunChecks
    idx,                    \* index of the current check of the range loop
    name, warnings, errs,   \* locals of the loop body
    wi, ei,                 \* positions of the two inner range loops
    ww,                     \* the lines written to the sink so far
    errsBuffer,             \* the lines of the error buffer
    ret,                    \* what RunChecks returned
    executed,               \* history: what each Check() call returned
    wwOwner, bufOwner,      \* history: the check that produced each line
    ipc, ipcRuntime, ipcOut, \* a lone ImagePullCheck.Check call
    k8sver, k8sverParts, k8sverOut,  \* a lone KubernetesVersionCheck.Check call
    kubeletver, kubelet, kubeletverOut \* a lone KubeletVersionCheck.Check call

vars == <<checks, ignorePreflightErrors, pc, idx, name, warnings, errs, wi, ei,
          ww, errsBuffer, ret, executed, wwOwner, bufOwner, ipc, ipcRuntime, ipcOut,
          k8sver, k8sverParts, k8sverOut, kubeletver, kubelet, kubeletverOut>>

runVars == <<checks, ignorePreflightErrors, pc, idx, name, warnings, errs, wi, ei,
             ww, errsBuffer, ret, executed, wwOwner, bufOwner>>
ipcVars == <<ipc, ipcRuntime, ipcOut>>
verVars == <<k8sver, k8sverParts, k8sverOut, kubeletver, kubelet, kubeletverOut>>

NoOut == [done |-> FALSE, warnings |-> << >>, errorList |-> << >>]
Parts(v, major, minor, patch, pre) ==
    [v |-> v, major |-> major, minor |-> minor, patch |-> patch, pre |-> pre]
NoParts == Parts(FALSE, 0, 0, 0, NoStr)

K8sVerIdle ==
    /\ k8sver = [KubeadmVersion |-> NoStr, KubernetesVersion |-> NoStr]
    /\ k8sverParts = [kubeadm |-> NoParts, kubernetes |-> NoParts]
    /\ k8sverOut = NoOut

KubeletVerIdle ==
    /\ kubeletver = [KubernetesVersion |-> NoStr]
    /\ kubelet = [err |-> TRUE, version |-> NoVersion]
    /\ kubeletverOut = NoOut

Pending == [state |-> "pending", Msg |-> << >>]
Nil == [state |-> "nil", Msg |-> << >>]
ErrorValue(msg) == [state |-> "error", Msg |-> msg]

NoIpcOut == [done |-> FALSE, warnings |-> << >>, errorList |-> << >>, calls |-> << >>]

RunInit(cs, ig) ==
    /\ checks = cs
    /\ ignorePreflightErrors = ig
    /\ pc = "loop"
    /\ idx = 1
    /\ name = NoStr
    /\ warnings = << >>
    /\ errs = << >>
    /\ wi = 1
    /\ ei = 1
    /\ ww = << >>
    /\ errsBuffer = << >>
    /\ ret = Pending
    /\ executed = << >>
    /\ wwOwner = << >>
    /\ bufOwner = << >>

IpcIdle ==
    /\ ipc = CheckRec("ImagePullCheck", NoStr, NoStr, FALSE, << >>, PullNever)
    /\ ipcRuntime = << >>
    /\ ipcOut = NoIpcOut

Init ==
    /\ \E cs \in SeqsUpTo(CheckPool, MaxChecks), ig \in SUBSET TokenPool : RunInit(cs, ig)
    /\ IpcIdle
    /\ K8sVerIdle
    /\ KubeletVerIdle

\* --------------------------------------------------------------- RunChecks
\* Mutation: the demoted errors are put before the check's own warnings.
Downgrade_ErrorsFirst(ignored, w, e) ==
    IF ignored THEN [warnings |-> e \o w, errs |-> << >>]
    ELSE [warnings |-> w, errs |-> e]

\* Mutation: the errors of an ignored check are dropped, not demoted.
Downgrade_DropsErrors(ignored, w, e) ==
    IF ignored THEN [warnings |-> w, errs |-> << >>]
    ELSE [warnings |-> w, errs |-> e]

\* Decrease severity of errors to warnings for an ignored check.
Downgrade(ignored, w, e) ==
    IF ignored THEN [warnings |-> w \o e, errs |-> << >>]
    ELSE [warnings |-> w, errs |-> e]

\* One iteration head: c.Name(), c.Check() and the downgrade of the errors.
CallCheck ==
    /\ pc = "loop"
    /\ idx <= Len(checks)
    /\ \E out \in Check(checks[idx]) :
         LET n == Name(checks[idx])
             ignored == setHasItemOrAll(ignorePreflightErrors, n)
             d == Downgrade(ignored, out.warnings, out.errorList)
         IN /\ name' = n
            /\ warnings' = d.warnings
            /\ errs' = d.errs
            /\ executed' = Append(executed,
                   [idx |-> idx, name |-> n, warnings |-> out.warnings,
                    errorList |-> out.errorList, initFailed |-> out.initFailed,
                    ignored |-> ignored])
    /\ wi' = 1
    /\ pc' = "warnings"
    /\ UNCHANGED <<checks, ignorePreflightErrors, idx, ei, ww, errsBuffer, ret,
                   wwOwner, bufOwner>>
    /\ UNCHANGED ipcVars
    /\ UNCHANGED verVars

\* Mutation: the warning line is put at the head of the sink.
WriteWarning_AtHead ==
    /\ pc = "warnings"
    /\ wi <= Len(warnings)
    /\ ww' = <<WarningLine(name, warnings[wi])>> \o ww
    /\ wwOwner' = <<idx>> \o wwOwner
    /\ wi' = wi + 1
    /\ UNCHANGED <<checks, ignorePreflightErrors, pc, idx, name, warnings, errs, ei,
                   errsBuffer, ret, executed, bufOwner>>
    /\ UNCHANGED ipcVars
    /\ UNCHANGED verVars

\* io.WriteString(ww, ...) for the next warning
WriteWarning ==
    /\ pc = "warnings"
    /\ wi <= Len(warnings)
    /\ ww' = Append(ww, WarningLine(name, warnings[wi]))
    /\ wwOwner' = Append(wwOwner, idx)
    /\ wi' = wi + 1
    /\ UNCHANGED <<checks, ignorePreflightErrors, pc, idx, name, warnings, errs, ei,
                   errsBuffer, ret, executed, bufOwner>>
    /\ UNCHANGED ipcVars
    /\ UNCHANGED verVars

WarningsDone ==
    /\ pc = "warnings"
    /\ wi > Len(warnings)
    /\ pc' = "errors"
    /\ ei' = 1
    /\ UNCHANGED <<checks, ignorePreflightErrors, idx, name, warnings, errs, wi,
                   ww, errsBuffer, ret, executed, wwOwner, bufOwner>>
    /\ UNCHANGED ipcVars
    /\ UNCHANGED verVars

\* Mutation: the error line is put at the head of the buffer.
BufferError_AtHead ==
    /\ pc = "errors"
    /\ ei <= Len(errs)
    /\ errsBuffer' = <<ErrorLine(name, errs[ei])>> \o errsBuffer
    /\ bufOwner' = <<idx>> \o bufOwner
    /\ ei' = ei + 1
    /\ UNCHANGED <<checks, ignorePreflightErrors, pc, idx, name, warnings, errs, wi,
                   ww, ret, executed, wwOwner>>
    /\ UNCHANGED ipcVars
    /\ UNCHANGED verVars

\* Mutation: the error line is also written to the sink at once.
BufferError_AlsoToSink ==
    /\ pc = "errors"
    /\ ei <= Len(errs)
    /\ errsBuffer' = Append(errsBuffer, ErrorLine(name, errs[ei]))
    /\ bufOwner' = Append(bufOwner, idx)
    /\ ww' = Append(ww, ErrorLine(name, errs[ei]))
    /\ wwOwner' = Append(wwOwner, idx)
    /\ ei' = ei + 1
    /\ UNCHANGED <<checks, ignorePreflightErrors, pc, idx, name, warnings, errs, wi,
                   ret, executed>>
    /\ UNCHANGED ipcVars
    /\ UNCHANGED verVars

\* errsBuffer.WriteString(...) for the next error
BufferError ==
    /\ pc = "errors"
    /\ ei <= Len(errs)
    /\ errsBuffer' = Append(errsBuffer, ErrorLine(name, errs[ei]))
    /\ bufOwner' = Append(bufOwner, idx)
    /\ ei' = ei + 1
    /\ UNCHANGED <<checks, ignorePreflightErrors, pc, idx, name, warnings, errs, wi,
                   ww, ret, executed, wwOwner>>
    /\ UNCHANGED ipcVars
    /\ UNCHANGED verVars

ErrorsDone ==
    /\ pc = "errors"
    /\ ei > Len(errs)
    /\ pc' = "loop"
    /\ idx' = idx + 1
    /\ UNCHANGED <<checks, ignorePreflightErrors, name, warnings, errs, wi, ei,
                   ww, errsBuffer, ret, executed, wwOwner, bufOwner>>
    /\ UNCHANGED ipcVars
    /\ UNCHANGED verVars

\* Mutation: a run that wrote warnings fails too.
Return_FailsOnWarnings ==
    /\ pc = "loop"
    /\ idx > Len(checks)
    /\ ret' = IF Len(errsBuffer) > 0 \/ Len(ww) > 0 THEN ErrorValue(errsBuffer) ELSE Nil
    /\ pc' = "done"
    /\ UNCHANGED <<checks, ignorePreflightErrors, idx, name, warnings, errs, wi, ei,
                   ww, errsBuffer, executed, wwOwner, bufOwner>>
    /\ UNCHANGED ipcVars
    /\ UNCHANGED verVars

\* Mutation: the run returns as soon as the buffer holds an error.
Return_AtFirstError ==
    /\ pc = "loop"
    /\ idx > Len(checks) \/ Len(errsBuffer) > 0
    /\ ret' = IF Len(errsBuffer) > 0 THEN ErrorValue(errsBuffer) ELSE Nil
    /\ pc' = "done"
    /\ UNCHANGED <<checks, ignorePreflightErrors, idx, name, warnings, errs, wi, ei,
                   ww, errsBuffer, executed, wwOwner, bufOwner>>
    /\ UNCHANGED ipcVars
    /\ UNCHANGED verVars

\* After the loop: every line of the buffer has at least one byte, so
\* errsBuffer.Len() > 0 exactly when the buffer holds a line.
Return ==
    /\ pc = "loop"
    /\ idx > Len(checks)
    /\ ret' = IF Len(errsBuffer) > 0 THEN ErrorValue(errsBuffer) ELSE Nil
    /\ pc' = "done"
    /\ UNCHANGED <<checks, ignorePreflightErrors, idx, name, warnings, errs, wi, ei,
                   ww, errsBuffer, executed, wwOwner, bufOwner>>
    /\ UNCHANGED ipcVars
    /\ UNCHANGED verVars

\* ------------------------------------------- ImagePullCheck.Check on its own
Images == {"a", "b"}
PullPolicies == {PullNever, PullIfNotPresent, PullAlways, "Sometimes"}

RunIdle ==
    /\ checks = << >>
    /\ ignorePreflightErrors = {}
    /\ pc = "idle"
    /\ idx = 1
    /\ name = NoStr
    /\ warnings = << >>
    /\ errs = << >>
    /\ wi = 1
    /\ ei = 1
    /\ ww = << >>
    /\ errsBuffer = << >>
    /\ ret = Pending
    /\ executed = << >>
    /\ wwOwner = << >>
    /\ bufOwner = << >>

IpcInit ==
    /\ RunIdle
    /\ \E l \in SeqsUpTo(Images, MaxImages), p \in PullPolicies :
         /\ ipc = CheckRec("ImagePullCheck", NoStr, NoStr, FALSE, l, p)
         /\ ipcRuntime \in [1..Len(l) -> ImageAnswers]
    /\ ipcOut = NoIpcOut
    /\ K8sVerIdle
    /\ KubeletVerIdle

IpcCheck ==
    /\ ~ipcOut.done
    /\ LET r == ImagePullCheck_Check(ipc, ipcRuntime)
       IN ipcOut' = [done |-> TRUE, warnings |-> r.warnings,
                     errorList |-> r.errorList, calls |-> r.calls]
    /\ UNCHANGED <<ipc, ipcRuntime>>
    /\ UNCHANGED runVars
    /\ UNCHANGED verVars

IpcNext == IpcCheck

SpecImagePull == IpcInit /\ [][IpcNext]_vars

\* ---------------------------------- KubernetesVersionCheck.Check on its own
VersionString(p) ==
    (IF p.v THEN <<"v">> ELSE << >>)
        \o Dec(p.major) \o Dot \o Dec(p.minor) \o Dot \o Dec(p.patch)
        \o (IF p.pre # NoStr THEN <<"-">> \o p.pre ELSE << >>)

PreAlpha1 == <<"a","l","p","h","a",".","1">>
PreRc1 == <<"r","c",".","1">>
PreDashX == <<"-","x">>

\* The versions of the tool (KubeadmVersion) and of the cluster
\* (KubernetesVersion) a caller may hand to the check.
KubeadmVersions ==
    { Parts(v, major, minor, patch, pre) :
        v \in BOOLEAN, major \in {0, 1}, minor \in {0, 1, 9}, patch \in {0, 2},
        pre \in {NoStr, PreRc1} }
KubernetesVersions ==
    { Parts(TRUE, major, minor, patch, pre) :
        major \in {0, 1, 2}, minor \in {0, 1, 2, 9, 10}, patch \in {0, 1},
        pre \in {NoStr, <<"0">>, PreAlpha1, PreDashX} }

K8sVerInit ==
    /\ RunIdle
    /\ IpcIdle
    /\ KubeletVerIdle
    /\ \E t \in KubeadmVersions, c \in KubernetesVersions :
         /\ k8sverParts = [kubeadm |-> t, kubernetes |-> c]
         /\ k8sver = [KubeadmVersion |-> VersionString(t),
                      KubernetesVersion |-> VersionString(c)]
    /\ k8sverOut = NoOut

K8sVerCheck ==
    /\ ~k8sverOut.done
    /\ LET r == KubernetesVersionCheck_Check(k8sver)
       IN k8sverOut' = [done |-> TRUE, warnings |-> r.warnings, errorList |-> r.errorList]
    /\ UNCHANGED <<k8sver, k8sverParts, kubeletver, kubelet, kubeletverOut>>
    /\ UNCHANGED runVars
    /\ UNCHANGED ipcVars

K8sVerNext == K8sVerCheck

SpecKubernetesVersion == K8sVerInit /\ [][K8sVerNext]_vars

\* ------------------------------------- KubeletVersionCheck.Check on its own
\* What GetKubeletVersion may return: an error, or the version of the kubelet.
KubeletResults ==
    { [err |-> TRUE, version |-> NoVersion] } \cup
    { [err |-> FALSE, version |-> Version(<<major, minor, 0>>, NoStr)] :
        major \in {1, 2}, minor \in {0, 20, 21, 25} }

\* The KubernetesVersion field: empty, not a version, or a version.
Latest == <<"l","a","t","e","s","t">>
ControlPlaneVersions ==
    { NoStr, Latest } \cup
    { VersionString(Parts(TRUE, major, minor, 0, pre)) :
        major \in {1, 2}, minor \in {0, 21, 25, 30}, pre \in {NoStr, PreRc1} }

KubeletVerInit ==
    /\ RunIdle
    /\ IpcIdle
    /\ K8sVerIdle
    /\ \E c \in ControlPlaneVersions : kubeletver = [KubernetesVersion |-> c]
    /\ kubelet \in KubeletResults
    /\ kubeletverOut = NoOut

KubeletVerCheck ==
    /\ ~kubeletverOut.done
    /\ LET r == KubeletVersionCheck_Check(kubeletver, kubelet)
       IN kubeletverOut' = [done |-> TRUE, warnings |-> r.warnings,
                            errorList |-> r.errorList]
    /\ UNCHANGED <<k8sver, k8sverParts, k8sverOut, kubeletver, kubelet>>
    /\ UNCHANGED runVars
    /\ UNCHANGED ipcVars

KubeletVerNext == KubeletVerCheck

SpecKubeletVersion == KubeletVerInit /\ [][KubeletVerNext]_vars

Next == CallCheck \/ WriteWarning \/ WarningsDone \/ BufferError \/ ErrorsDone \/ Return

Spec == Init /\ [][Next]_vars

\* =================================================================== claims
\* ---- what the specification says of a run, stated over the history
IsPrefix(a, b) == Len(a) <= Len(b) /\ \A j \in 1..Len(a) : a[j] = b[j]

RECURSIVE Flatten(_)
Flatten(ss) == IF ss = << >> THEN << >> ELSE Head(ss) \o Flatten(Tail(ss))

\* The lines of lines that the history attributes to the k-th check.
OwnedLines(lines, owner, k) ==
    LET at == SelectSeq([j \in 1..Len(lines) |-> j], LAMBDA j : owner[j] = k)
    IN [m \in 1..Len(at) |-> lines[at[m]]]

\* The downgrade rule of the specification for the check of history entry h.
InIgnoreSet(h) ==
    AllToken \in ignorePreflightErrors \/ ToLower(h.name) \in ignorePreflightErrors

SurvivingWarnings(h) == IF InIgnoreSet(h) THEN h.warnings \o h.errorList ELSE h.warnings
SurvivingErrors(h) == IF InIgnoreSet(h) THEN << >> ELSE h.errorList

ExpectedWarningLines(h) ==
    [j \in 1..Len(SurvivingWarnings(h)) |->
        Line("WARNING", h.name, SurvivingWarnings(h)[j])]
ExpectedErrorLines(h) ==
    [j \in 1..Len(SurvivingErrors(h)) |-> Line("ERROR", h.name, SurvivingErrors(h)[j])]

\* The sink and the buffer after the first n checks have been processed.
ExpectedSink(n) == Flatten([k \in 1..n |-> ExpectedWarningLines(executed[k])])
ExpectedBuffer(n) == Flatten([k \in 1..n |-> ExpectedErrorLines(executed[k])])

Returned == pc = "done"

\* C1: RunChecks returns a failure if and only if some check has a
\* non-empty errors result after the downgrade rule; warnings alone never
\* produce a failure.
C1_FailureIffSurvivingError ==
    Returned =>
        /\ ret.state \in {"nil", "error"}
        /\ ret.state = "error" <=>
              \E k \in 1..Len(executed) : SurvivingErrors(executed[k]) # << >>

\* A run that failed although another check's errors were downgraded and
\* warnings were written.
C1_Witness ==
    /\ Returned
    /\ ret.state = "error"
    /\ Len(ww) > 0
    /\ \E k \in 1..Len(executed) :
          InIgnoreSet(executed[k]) /\ executed[k].errorList # << >>

\* C2: a check whose lowercased name, or the token all, is in the ignore set
\* has all its errors demoted: the buffer holds no line of it, and its sink
\* lines are its own warnings followed by its errors, in their order.
C2_DowngradeAllOrNothing ==
    \A k \in 1..Len(executed) :
        LET h == executed[k]
            mine == OwnedLines(ww, wwOwner, k)
            want == [j \in 1..Len(h.warnings \o h.errorList) |->
                        Line("WARNING", h.name, (h.warnings \o h.errorList)[j])]
        IN InIgnoreSet(h) =>
              /\ OwnedLines(errsBuffer, bufOwner, k) = << >>
              /\ IsPrefix(mine, want)
              /\ (idx > k \/ pc = "errors") => mine = want

\* A finished run with an ignored check that returned warnings and errors.
C2_Witness ==
    /\ Returned
    /\ \E k \in 1..Len(executed) :
          /\ InIgnoreSet(executed[k])
          /\ Len(executed[k].errorList) = 2
          /\ Len(executed[k].warnings) = 2
          /\ AllToken \notin ignorePreflightErrors

\* C3: a check is downgraded exactly when the ignore set holds a token equal
\* to its name with letter case ignored on both sides, or the token all in
\* any letter case.
C3_CaseInsensitiveMatch ==
    \A k \in 1..Len(executed) :
        executed[k].ignored <=>
            \/ \E t \in ignorePreflightErrors : ToLower(t) = ToLower(executed[k].name)
            \/ \E t \in ignorePreflightErrors : ToLower(t) = AllToken

\* C4: the message of a failure is the header line, then one error line per
\* surviving error, under the name of its check, in check order and then in
\* the check's order, then the hint.
C4_FailureMessage ==
    (Returned /\ ret.state = "error") =>
        Error_Error(ret) =
            <<HeaderLine>> \o ExpectedBuffer(Len(executed)) \o <<HintLine>>

\* A failure carrying the errors of two checks, one of them with two errors.
C4_Witness ==
    /\ Returned
    /\ ret.state = "error"
    /\ Len(ret.Msg) >= 3
    /\ \E j, k \in 1..Len(bufOwner) : bufOwner[j] # bufOwner[k]

\* C5: at every point the sink lines are in check order, and the lines of one
\* check are in the order it produced them, its own warnings before its
\* downgraded errors.
C5_SinkOrder ==
    /\ \A p, q \in 1..Len(ww) : p < q => wwOwner[p] <= wwOwner[q]
    /\ \A k \in 1..Len(executed) :
          LET h == executed[k]
              mine == OwnedLines(ww, wwOwner, k)
              produced == IF InIgnoreSet(h) THEN h.warnings \o h.errorList
                          ELSE h.warnings
          IN /\ Len(mine) <= Len(produced)
             /\ \A j \in 1..Len(mine) : mine[j] = Line("WARNING", h.name, produced[j])

\* The sink holds lines of two checks, the later one with a downgraded error
\* after its own warnings.
C5_Witness ==
    /\ Len(ww) >= 4
    /\ wwOwner[1] = 1
    /\ wwOwner[Len(ww)] = 2
    /\ InIgnoreSet(executed[2])
    /\ executed[2].warnings # << >>
    /\ ww[Len(ww)].msg = executed[2].errorList[Len(executed[2].errorList)]

\* C6: every check is executed exactly once, in the caller's order; a
\* surviving error never ends the run early: the run goes on until the last
\* check has been processed and only then decides the failure.
C6_EachCheckOnceInOrder ==
    /\ Len(executed) <= Len(checks)
    /\ \A k \in 1..Len(executed) :
          executed[k].idx = k /\ executed[k].name = Name(checks[k])
    /\ pc \in {"warnings", "errors"} => Len(executed) = idx
    /\ pc = "loop" => Len(executed) = idx - 1
    /\ Len(executed) < Len(checks) =>
          /\ ret = Pending
          /\ pc \in {"loop", "warnings", "errors"}
          /\ pc = "loop" => idx <= Len(checks)
    /\ Returned => Len(executed) = Len(checks)

\* A finished run whose first check left an error in the buffer and whose
\* second check was still executed.
C6_Witness ==
    /\ Returned
    /\ Len(executed) = 2
    /\ bufOwner # << >>
    /\ bufOwner[1] = 1

\* C7: when a check starts, the surviving warnings of all earlier checks
\* are already in the sink; no error line reaches the caller before every
\* check has run: the sink never holds one and the failure is returned last.
C7_WarningsLiveErrorsLast ==
    /\ (pc = "loop" /\ idx <= Len(checks)) => ww = ExpectedSink(idx - 1)
    /\ pc \in {"warnings", "errors"} => IsPrefix(ExpectedSink(idx - 1), ww)
    /\ \A j \in 1..Len(ww) : ww[j].level = "WARNING"
    /\ ~Returned => ret = Pending
    /\ ret.state = "error" => Len(executed) = Len(checks)

\* The second check is about to start: the first one left warnings in the
\* sink and an error in the buffer, and nothing has been returned.
C7_Witness ==
    /\ pc = "loop"
    /\ idx = 2
    /\ idx <= Len(checks)
    /\ Len(ww) = 2
    /\ Len(errsBuffer) = 2
    /\ ret = Pending

\* C8: the sink gets one line per surviving warning and nothing else, so at
\* the end sink lines plus buffer lines count the diagnostics of all checks;
\* a run without any diagnostic succeeds and leaves the sink empty.
RECURSIVE SumLens(_)
SumLens(hs) ==
    IF hs = << >> THEN 0
    ELSE Len(Head(hs).warnings) + Len(Head(hs).errorList) + SumLens(Tail(hs))

C8_OneLinePerDiagnostic ==
    Returned =>
        /\ ww = ExpectedSink(Len(executed))
        /\ Len(ww) + Len(errsBuffer) = SumLens(executed)
        /\ SumLens(executed) = 0 => (ret = Nil /\ ww = << >>)

\* A finished run of two checks with lines in the sink and in the buffer.
C8_Witness ==
    /\ Returned
    /\ Len(executed) = 2
    /\ Len(ww) >= 2
    /\ Len(errsBuffer) >= 2

\* C9 as stated: with an empty ignore set, a run containing a ServiceCheck or
\* FirewalldCheck whose init-system detection fails returns a failure.
C9_InitFailureBlocks ==
    (/\ Returned
     /\ ignorePreflightErrors = {}
     /\ \E k \in 1..Len(executed) : executed[k].initFailed)
        => ret.state = "error"

\* C9 amended: a ServiceCheck or FirewalldCheck whose init-system detection
\* fails returns that condition as its only warning and returns no error; its
\* warning line reaches the sink, it adds no line to the buffer, and a run
\* in which no check returns an error succeeds.
InitFailedDiag == Diag("no supported init system detected", "")

C9_InitFailureWarns ==
    \A k \in 1..Len(executed) :
        LET h == executed[k]
        IN h.initFailed =>
              /\ checks[k].kind \in {"ServiceCheck", "FirewalldCheck"}
              /\ h.warnings = <<InitFailedDiag>>
              /\ h.errorList = << >>
              /\ OwnedLines(errsBuffer, bufOwner, k) = << >>
              /\ (idx > k \/ pc = "errors") =>
                    OwnedLines(ww, wwOwner, k) = <<Line("WARNING", h.name, InitFailedDiag)>>
              /\ (Returned /\ \A j \in 1..Len(executed) : executed[j].errorList = << >>)
                    => ret = Nil

\* A finished run, with nothing ignored, of a ServiceCheck and a
\* FirewalldCheck that both failed to detect the init system.
C9_Witness ==
    /\ Returned
    /\ ignorePreflightErrors = {}
    /\ Len(executed) = 2
    /\ checks[1].kind = "ServiceCheck"
    /\ checks[2].kind = "FirewalldCheck"
    /\ executed[1].initFailed
    /\ executed[2].initFailed
    /\ ret = Nil

\* C10: ImagePullCheck by policy.  Never: no query, no pull, no error.
\* IfNotPresent: one existence query per image; the pull is skipped only when
\* the query succeeded and answered present; a failed query is an error and
\* the pull is still attempted, a failed pull being a further error.
\* Always: one pull per image, an error per failed pull.  Errors are in image
\* order and every image is processed whatever happened to the earlier ones.
SkipPull(k) == ipcRuntime[k].exists /\ ~ipcRuntime[k].existsErr

CallsFor(k) ==
    LET image == ipc.imageList[k]
    IN CASE ipc.imagePullPolicy = PullNever -> << >>
         [] ipc.imagePullPolicy = PullAlways -> <<Call("PullImage", image)>>
         [] ipc.imagePullPolicy = PullIfNotPresent ->
              IF SkipPull(k) THEN <<Call("ImageExists", image)>>
              ELSE <<Call("ImageExists", image), Call("PullImage", image)>>

ErrorsFor(k) ==
    LET image == ipc.imageList[k]
        pullFailed == IF ipcRuntime[k].pullErr
                        THEN <<Diag("failed to pull image", image)>> ELSE << >>
        queryFailed == IF ipcRuntime[k].existsErr
                         THEN <<Diag("failed to check if image exists", image)>>
                         ELSE << >>
    IN CASE ipc.imagePullPolicy = PullNever -> << >>
         [] ipc.imagePullPolicy = PullAlways -> pullFailed
         [] ipc.imagePullPolicy = PullIfNotPresent ->
              IF SkipPull(k) THEN << >> ELSE queryFailed \o pullFailed

C10_ImagePullByPolicy ==
    (ipcOut.done /\ ipc.imagePullPolicy \in {PullNever, PullIfNotPresent, PullAlways}) =>
        /\ ipcOut.warnings = << >>
        /\ ipcOut.calls = Flatten([k \in 1..Len(ipc.imageList) |-> CallsFor(k)])
        /\ ipcOut.errorList = Flatten([k \in 1..Len(ipc.imageList) |-> ErrorsFor(k)])

\* IfNotPresent on two images: the query of the first fails and so does its
\* pull; the second is still queried and, being absent, pulled.
C10_Witness ==
    /\ ipcOut.done
    /\ ipc.imagePullPolicy = PullIfNotPresent
    /\ Len(ipc.imageList) = 2
    /\ ipcRuntime[1].existsErr
    /\ ipcRuntime[1].pullErr
    /\ ~ipcRuntime[2].exists
    /\ Len(ipcOut.errorList) = 2
    /\ Len(ipcOut.calls) = 4

\* C11: with an unrecognized pull policy ImagePullCheck returns exactly one
\* error for every image list, whatever its length, and makes no existence
\* query and no pull.
C11_UnknownPolicySingleError ==
    (ipcOut.done /\ ipc.imagePullPolicy \notin {PullNever, PullIfNotPresent, PullAlways}) =>
        /\ Len(ipcOut.errorList) = 1
        /\ ipcOut.warnings = << >>
        /\ ipcOut.calls = << >>

\* C12 as stated: for parseable versions the skew finding is produced exactly
\* when the cluster version is at or past M.(m+1).0 without pre-release in
\* semantic-version precedence; a tool version with the prefix v0.0.0 passes.
DevBuild(t) == t.v /\ t.major = 0 /\ t.minor = 0 /\ t.patch = 0
SkewFound == k8sverOut.warnings = <<SkewDiag>> /\ k8sverOut.errorList = << >>
NothingFound == k8sverOut.warnings = << >> /\ k8sverOut.errorList = << >>

C12_SkewFromNextMinorRelease ==
    k8sverOut.done =>
        LET t == k8sverParts.kubeadm
            c == k8sverParts.kubernetes
            atOrPast ==
                \/ c.major > t.major
                \/ c.major = t.major /\ c.minor > t.minor + 1
                \/ /\ c.major = t.major
                   /\ c.minor = t.minor + 1
                   /\ (c.patch > 0 \/ c.pre = NoStr)
        IN IF DevBuild(t) THEN NothingFound
           ELSE IF atOrPast THEN SkewFound ELSE NothingFound

\* C12 amended: the skew finding is produced exactly when the cluster version
\* is at or past M.(m+1).0-0 in the version library's ordering, where two
\* pre-release identifiers are compared as numbers when both are numbers and
\* as byte strings otherwise.  Everything of the tool's minor or older is
\* accepted; of the next minor or later only M.(m+1).0 with a pre-release
\* whose first identifier begins with "-" is accepted, "-" being the one
\* identifier character below "0"; a tool version with the prefix v0.0.0
\* passes whatever the cluster version.
C12_SkewFromNextMinor ==
    k8sverOut.done =>
        LET t == k8sverParts.kubeadm
            c == k8sverParts.kubernetes
            nextMinorOrLater ==
                \/ c.major > t.major
                \/ c.major = t.major /\ c.minor >= t.minor + 1
            belowDashZero ==
                /\ c.major = t.major
                /\ c.minor = t.minor + 1
                /\ c.patch = 0
                /\ c.pre # NoStr
                /\ c.pre[1] = "-"
        IN IF DevBuild(t) THEN NothingFound
           ELSE IF nextMinorOrLater /\ ~belowDashZero THEN SkewFound
           ELSE NothingFound

\* Tool 1.9.2 against the cluster pre-release v1.10.0-alpha.1: the finding.
C12_Witness ==
    /\ k8sverOut.done
    /\ k8sverParts.kubeadm = Parts(FALSE, 1, 9, 2, NoStr)
    /\ k8sverParts.kubernetes = Parts(TRUE, 1, 10, 0, PreAlpha1)
    /\ SkewFound

\* C13: for a kubelet at or above the minimum and a parseable control plane
\* version, the kubelet is reported higher than the control plane exactly
\* when its (major, minor) is lexicographically greater.
C13_HigherIsLexicographic ==
    (/\ kubeletverOut.done
     /\ ~kubelet.err
     /\ ~LessThan(kubelet.version, MinimumKubeletVersion)
     /\ ParseSemantic(kubeletver.KubernetesVersion).ok)
        => LET k == kubelet.version.components
               c == ParseSemantic(kubeletver.KubernetesVersion).components
           IN (kubeletverOut.errorList = <<HigherDiag>>)
                  <=> (k[1] > c[1] \/ (k[1] = c[1] /\ k[2] > c[2]))

====
